---- MODULE Spec2Model ----
(***************************************************************************)
(* The TCP relay of tcp_proxy.py as a state machine.                       *)
(*                                                                         *)
(* Threads: the main thread (bind, accept loop, shutdown), one handler     *)
(* thread per accepted client (handle_client) and two forwarder threads    *)
(* per handler (forward).  The environment is the two peers of every pair  *)
(* (the client and the upstream server), the interrupt signal, and the     *)
(* failures the operating system can inject (bind, accept, connect,        *)
(* thread start, recv, sendall).                                           *)
(*                                                                         *)
(* A socket is named <<i, side>>: i is the number of the accepted client,  *)
(* side is "c" (client_socket) or "r" (remote_socket).  A byte is named    *)
(* <<i, side, k>>: the k-th byte the peer of socket <<i, side>> sent, so   *)
(* that reordering, duplication and cross-talk are visible.                *)
(***************************************************************************)
EXTENDS Naturals, Sequences, FiniteSets

VARIABLES
    mainpc,      \* position of main(): bind, accept, spawn, finally, exit
    mainexc,     \* the exception that ended main(): none, KeyboardInterrupt
                 \* (caught), binderror (raised by bind), error (raised in
                 \* the loop)
    serverOpen,  \* the listening socket is bound and not closed
    exitCode,    \* process exit status, or "running"
    nAccepted,   \* number of clients server.accept() has returned
    hpc,         \* position of each handler thread (handle_client)
    fpc,         \* position of each forwarder thread (forward)
    args,        \* (source, destination) each forwarder thread was given
    chunk,       \* `data` of each forwarder: what recv returned, not yet sent
    st,          \* each socket object: absent, unconnected, open, closed
    closers,     \* per socket, the threads that have called close() on it
    arrived,     \* per socket, every byte that arrived on it from its peer
    rpos,        \* per socket, how many arrived bytes recv has returned
    written,     \* per socket, every byte sendall wrote to it
    peerEOF,     \* per socket, its peer has closed its sending side
    closeWakes,  \* platform: close() aborts a recv blocked in another thread
    eventsLeft,  \* events the environment may still produce: a connecting
                 \* client, a byte sent, a peer's close, a failure, the signal
    clientsLeft  \* clients that may still connect

vars == <<mainpc, mainexc, serverOpen, exitCode, nAccepted, hpc, fpc, args,
          chunk, st, closers, arrived, rpos, written, peerEOF, closeWakes,
          eventsLeft, clientsLeft>>

\* ------------------------------------------------------------------ bounds
MaxClients == 2
MaxEvents == 4
LiveEvents == 4

\* recv(4096): the largest chunk one recv returns
BUFSIZE == 4096

Clients == 1..MaxClients
Sides == {"c", "r"}
Dirs == {"c2r", "r2c"}
Socks == Clients \X Sides
Fwds == Clients \X Dirs

Min(a, b) == IF a < b THEN a ELSE b

IsPrefix(s, t) == Len(s) <= Len(t) /\ SubSeq(t, 1, Len(s)) = s

\* --------------------------------------------------------------- sockets

\* The bytes of socket s that have arrived and that no recv has returned yet.
Available(s) == SubSeq(arrived[s], rpos[s] + 1, Len(arrived[s]))

\* A forwarder is inside source.recv() on socket s.
InRecvOn(s) == \E f \in Fwds : fpc[f] = "inrecv" /\ args[f][1] = s

\* The connection of socket s is still established as its peer sees it.
\* socket.close() releases the connection at once, unless a thread is blocked
\* in recv on it and the platform lets that recv go on: then the connection
\* lives until that recv returns.
Live(s) ==
    \/ st[s] = "open"
    \/ st[s] = "closed" /\ ~closeWakes /\ InRecvOn(s)

\* socket.close() by thread `who`: idempotent on the socket object.
CloseBy(s, who) ==
    /\ st' = [st EXCEPT ![s] = IF @ = "absent" THEN @ ELSE "closed"]
    /\ closers' = [closers EXCEPT ![s] = @ \cup {who}]

\* ------------------------------------------------------------ forward()

\* recv on a socket object that is already closed raises at once.
RecvRaisesAtCall(s) == st[s] # "open"

\* sendall that returns without writing
SendAllNothing(w, data) == w

\* sendall that puts the chunk in front of what was written before
SendAllPrepend(w, data) == data \o w

\* destination.sendall(data), all of it written.
SendAll(w, data) == w \o data

\* a finally block that closes the destination twice and never the source
FinallyFirstDst(f) == args[f][2]

\* a finally block that leaves the destination to somebody else
FinallySecondSrc(f) == args[f][1]

\* The sockets forward() closes in its finally block, in order (lines 23, 24).
FinallyFirst(f) == args[f][1]

FinallySecond(f) == args[f][2]

\* line 16, the call: source.recv(4096) is entered, or raises on a closed socket
FRecvCall(f) ==
    /\ fpc[f] = "recv"
    /\ fpc' = [fpc EXCEPT ![f] =
                 IF RecvRaisesAtCall(args[f][1]) THEN "closeSrc" ELSE "inrecv"]
    /\ UNCHANGED <<mainpc, mainexc, serverOpen, exitCode, nAccepted, hpc, args,
                   chunk, st, closers, arrived, rpos, written, peerEOF,
                   closeWakes, eventsLeft, clientsLeft>>

\* line 16, the return with data: any positive number of the available bytes
FRecvData(f) ==
    /\ fpc[f] = "inrecv"
    /\ Live(args[f][1])
    /\ \E n \in 1..Min(Len(Available(args[f][1])), BUFSIZE) :
         /\ chunk' = [chunk EXCEPT ![f] = SubSeq(Available(args[f][1]), 1, n)]
         /\ rpos' = [rpos EXCEPT ![args[f][1]] = @ + n]
    /\ fpc' = [fpc EXCEPT ![f] = "send"]
    /\ UNCHANGED <<mainpc, mainexc, serverOpen, exitCode, nAccepted, hpc, args,
                   st, closers, arrived, written, peerEOF, closeWakes,
                   eventsLeft, clientsLeft>>

\* lines 16-18: recv returns b'' at end of stream, the loop breaks
FRecvEOF(f) ==
    /\ fpc[f] = "inrecv"
    /\ Live(args[f][1])
    /\ Available(args[f][1]) = <<>>
    /\ peerEOF[args[f][1]]
    /\ fpc' = [fpc EXCEPT ![f] = "closeSrc"]
    /\ UNCHANGED <<mainpc, mainexc, serverOpen, exitCode, nAccepted, hpc, args,
                   chunk, st, closers, arrived, rpos, written, peerEOF,
                   closeWakes, eventsLeft, clientsLeft>>

\* a read failure after which the loop goes round again
FRecvErrorRetry(f) ==
    /\ fpc[f] = "inrecv"
    /\ Live(args[f][1])
    /\ eventsLeft > 0
    /\ eventsLeft' = eventsLeft - 1
    /\ fpc' = [fpc EXCEPT ![f] = "recv"]
    /\ UNCHANGED <<mainpc, mainexc, serverOpen, exitCode, nAccepted, hpc, args,
                   chunk, st, closers, arrived, rpos, written, peerEOF,
                   closeWakes, clientsLeft>>

\* a read failure that ends the process
FRecvErrorFatal(f) ==
    /\ fpc[f] = "inrecv"
    /\ Live(args[f][1])
    /\ eventsLeft > 0
    /\ eventsLeft' = eventsLeft - 1
    /\ fpc' = [fpc EXCEPT ![f] = "closeSrc"]
    /\ exitCode' = "1"
    /\ UNCHANGED <<mainpc, mainexc, serverOpen, nAccepted, hpc, args,
                   chunk, st, closers, arrived, rpos, written, peerEOF,
                   closeWakes, clientsLeft>>

\* lines 16, 20: recv raises (connection reset, timeout of the network)
FRecvError(f) ==
    /\ fpc[f] = "inrecv"
    /\ Live(args[f][1])
    /\ eventsLeft > 0
    /\ eventsLeft' = eventsLeft - 1
    /\ fpc' = [fpc EXCEPT ![f] = "closeSrc"]
    /\ UNCHANGED <<mainpc, mainexc, serverOpen, exitCode, nAccepted, hpc, args,
                   chunk, st, closers, arrived, rpos, written, peerEOF,
                   closeWakes, clientsLeft>>

\* lines 16, 20: the other thread closed the socket under a blocked recv, and
\* the platform aborts that recv
FRecvAbort(f) ==
    /\ fpc[f] = "inrecv"
    /\ st[args[f][1]] = "closed"
    /\ closeWakes
    /\ fpc' = [fpc EXCEPT ![f] = "closeSrc"]
    /\ UNCHANGED <<mainpc, mainexc, serverOpen, exitCode, nAccepted, hpc, args,
                   chunk, st, closers, arrived, rpos, written, peerEOF,
                   closeWakes, eventsLeft, clientsLeft>>

\* line 19: destination.sendall(data) writes the chunk, or raises on a closed
\* socket object having written nothing
FSend(f) ==
    /\ fpc[f] = "send"
    /\ IF st[args[f][2]] = "open"
       THEN /\ written' = [written EXCEPT ![args[f][2]] = SendAll(@, chunk[f])]
            /\ fpc' = [fpc EXCEPT ![f] = "recv"]
       ELSE /\ written' = written
            /\ fpc' = [fpc EXCEPT ![f] = "closeSrc"]
    /\ chunk' = [chunk EXCEPT ![f] = <<>>]
    /\ UNCHANGED <<mainpc, mainexc, serverOpen, exitCode, nAccepted, hpc, args,
                   st, closers, arrived, rpos, peerEOF, closeWakes,
                   eventsLeft, clientsLeft>>

\* lines 19, 20: sendall raises after writing only a part of the chunk
FSendError(f) ==
    /\ fpc[f] = "send"
    /\ st[args[f][2]] = "open"
    /\ eventsLeft > 0
    /\ eventsLeft' = eventsLeft - 1
    /\ \E n \in 0..(Len(chunk[f]) - 1) :
         written' = [written EXCEPT ![args[f][2]] =
                        SendAll(@, SubSeq(chunk[f], 1, n))]
    /\ chunk' = [chunk EXCEPT ![f] = <<>>]
    /\ fpc' = [fpc EXCEPT ![f] = "closeSrc"]
    /\ UNCHANGED <<mainpc, mainexc, serverOpen, exitCode, nAccepted, hpc, args,
                   st, closers, arrived, rpos, peerEOF, closeWakes,
                   clientsLeft>>

\* line 23: source.close()
FCloseSrc(f) ==
    /\ fpc[f] = "closeSrc"
    /\ CloseBy(FinallyFirst(f), f[2])
    /\ fpc' = [fpc EXCEPT ![f] = "closeDst"]
    /\ UNCHANGED <<mainpc, mainexc, serverOpen, exitCode, nAccepted, hpc, args,
                   chunk, arrived, rpos, written, peerEOF, closeWakes,
                   eventsLeft, clientsLeft>>

\* line 24: destination.close(), and the thread ends
FCloseDst(f) ==
    /\ fpc[f] = "closeDst"
    /\ CloseBy(FinallySecond(f), f[2])
    /\ fpc' = [fpc EXCEPT ![f] = "done"]
    /\ UNCHANGED <<mainpc, mainexc, serverOpen, exitCode, nAccepted, hpc, args,
                   chunk, arrived, rpos, written, peerEOF, closeWakes,
                   eventsLeft, clientsLeft>>

Forward(f) ==
    \/ FRecvCall(f)
    \/ FRecvData(f)
    \/ FRecvEOF(f)
    \/ FRecvError(f)
    \/ FRecvAbort(f)
    \/ FSend(f)
    \/ FSendError(f)
    \/ FCloseSrc(f)
    \/ FCloseDst(f)

\* ------------------------------------------------------- handle_client()

\* both threads built with the arguments of the first
ForwardArgsSameDirection(i) ==
    [d \in Dirs |-> << <<i, "c">>, <<i, "r">> >>]

\* one upstream socket, that of the first client, shared by every handler
ForwardArgsShared(i) ==
    [d \in Dirs |-> IF d = "c2r" THEN << <<i, "c">>, <<1, "r">> >>
                                 ELSE << <<1, "r">>, <<i, "c">> >>]

\* lines 33-34: the two Thread objects and the sockets each is given
ForwardArgs(i) ==
    [d \in Dirs |-> IF d = "c2r" THEN << <<i, "c">>, <<i, "r">> >>
                                 ELSE << <<i, "r">>, <<i, "c">> >>]

\* lines 29-34: remote_socket is created and connected, the threads are built
HConnect(i) ==
    /\ hpc[i] = "connect"
    /\ st' = [st EXCEPT ![<<i, "r">>] = "open"]
    /\ args' = [f \in Fwds |-> IF f[1] = i THEN ForwardArgs(i)[f[2]] ELSE args[f]]
    /\ hpc' = [hpc EXCEPT ![i] = "start1"]
    /\ UNCHANGED <<mainpc, mainexc, serverOpen, exitCode, nAccepted, fpc,
                   chunk, closers, arrived, rpos, written, peerEOF,
                   closeWakes, eventsLeft, clientsLeft>>

\* a failed connect that ends the handler without closing client_socket
HConnectFailNoClose(i) ==
    /\ hpc[i] = "connect"
    /\ eventsLeft > 0
    /\ eventsLeft' = eventsLeft - 1
    /\ st' = [st EXCEPT ![<<i, "r">>] = "unconnected"]
    /\ hpc' = [hpc EXCEPT ![i] = "done"]
    /\ UNCHANGED <<mainpc, mainexc, serverOpen, exitCode, nAccepted, fpc, args,
                   chunk, closers, arrived, rpos, written, peerEOF,
                   closeWakes, clientsLeft>>

\* lines 29-30, 41: connect raises (refused, unreachable, timed out); the
\* socket object that line 29 created stays, unconnected
HConnectFail(i) ==
    /\ hpc[i] = "connect"
    /\ eventsLeft > 0
    /\ eventsLeft' = eventsLeft - 1
    /\ st' = [st EXCEPT ![<<i, "r">>] = "unconnected"]
    /\ hpc' = [hpc EXCEPT ![i] = "except"]
    /\ UNCHANGED <<mainpc, mainexc, serverOpen, exitCode, nAccepted, fpc, args,
                   chunk, closers, arrived, rpos, written, peerEOF,
                   closeWakes, clientsLeft>>

\* line 36: client_to_remote.start()
HStart1(i) ==
    /\ hpc[i] = "start1"
    /\ fpc' = [fpc EXCEPT ![<<i, "c2r">>] = "recv"]
    /\ hpc' = [hpc EXCEPT ![i] = "start2"]
    /\ UNCHANGED <<mainpc, mainexc, serverOpen, exitCode, nAccepted, args,
                   chunk, st, closers, arrived, rpos, written, peerEOF,
                   closeWakes, eventsLeft, clientsLeft>>

\* line 37: remote_to_client.start()
HStart2(i) ==
    /\ hpc[i] = "start2"
    /\ fpc' = [fpc EXCEPT ![<<i, "r2c">>] = "recv"]
    /\ hpc' = [hpc EXCEPT ![i] = "join1"]
    /\ UNCHANGED <<mainpc, mainexc, serverOpen, exitCode, nAccepted, args,
                   chunk, st, closers, arrived, rpos, written, peerEOF,
                   closeWakes, eventsLeft, clientsLeft>>

\* lines 36-37, 41: Thread.start() raises (no thread can be created)
HStartFail(i) ==
    /\ hpc[i] \in {"start1", "start2"}
    /\ eventsLeft > 0
    /\ eventsLeft' = eventsLeft - 1
    /\ hpc' = [hpc EXCEPT ![i] = "except"]
    /\ UNCHANGED <<mainpc, mainexc, serverOpen, exitCode, nAccepted, fpc, args,
                   chunk, st, closers, arrived, rpos, written, peerEOF,
                   closeWakes, clientsLeft>>

\* line 39: client_to_remote.join()
HJoin1(i) ==
    /\ hpc[i] = "join1"
    /\ fpc[<<i, "c2r">>] = "done"
    /\ hpc' = [hpc EXCEPT ![i] = "join2"]
    /\ UNCHANGED <<mainpc, mainexc, serverOpen, exitCode, nAccepted, fpc, args,
                   chunk, st, closers, arrived, rpos, written, peerEOF,
                   closeWakes, eventsLeft, clientsLeft>>

\* line 40: remote_to_client.join(), and handle_client returns
HJoin2(i) ==
    /\ hpc[i] = "join2"
    /\ fpc[<<i, "r2c">>] = "done"
    /\ hpc' = [hpc EXCEPT ![i] = "done"]
    /\ UNCHANGED <<mainpc, mainexc, serverOpen, exitCode, nAccepted, fpc, args,
                   chunk, st, closers, arrived, rpos, written, peerEOF,
                   closeWakes, eventsLeft, clientsLeft>>

\* lines 41-43: the except block closes client_socket, handle_client returns
HExcept(i) ==
    /\ hpc[i] = "except"
    /\ CloseBy(<<i, "c">>, "handler")
    /\ hpc' = [hpc EXCEPT ![i] = "done"]
    /\ UNCHANGED <<mainpc, mainexc, serverOpen, exitCode, nAccepted, fpc, args,
                   chunk, arrived, rpos, written, peerEOF, closeWakes,
                   eventsLeft, clientsLeft>>

HandleClient(i) ==
    \/ HConnect(i)
    \/ HConnectFail(i)
    \/ HStart1(i)
    \/ HStart2(i)
    \/ HStartFail(i)
    \/ HJoin1(i)
    \/ HJoin2(i)
    \/ HExcept(i)

\* ----------------------------------------------------------------- main()

\* lines 47-53: the listening socket is bound
MBind ==
    /\ mainpc = "bind"
    /\ serverOpen' = TRUE
    /\ mainpc' = "accept"
    /\ UNCHANGED <<mainexc, exitCode, nAccepted, hpc, fpc, args, chunk, st,
                   closers, arrived, rpos, written, peerEOF, closeWakes,
                   eventsLeft, clientsLeft>>

\* a failed bind that is tried again
MBindFailRetry ==
    /\ mainpc = "bind"
    /\ eventsLeft > 0
    /\ eventsLeft' = eventsLeft - 1
    /\ mainexc' = "binderror"
    /\ mainpc' = "bind"
    /\ UNCHANGED <<serverOpen, exitCode, nAccepted, hpc, fpc, args, chunk, st,
                   closers, arrived, rpos, written, peerEOF, closeWakes,
                   clientsLeft>>

\* line 49: bind raises outside any try; main() ends with the exception
MBindFail ==
    /\ mainpc = "bind"
    /\ eventsLeft > 0
    /\ eventsLeft' = eventsLeft - 1
    /\ mainexc' = "binderror"
    /\ mainpc' = "exit"
    /\ UNCHANGED <<serverOpen, exitCode, nAccepted, hpc, fpc, args, chunk, st,
                   closers, arrived, rpos, written, peerEOF, closeWakes,
                   clientsLeft>>

\* line 57: server.accept() returns the next client's socket
MAccept ==
    /\ mainpc = "accept"
    /\ clientsLeft > 0
    /\ eventsLeft > 0
    /\ clientsLeft' = clientsLeft - 1
    /\ eventsLeft' = eventsLeft - 1
    /\ nAccepted' = nAccepted + 1
    /\ st' = [st EXCEPT ![<<nAccepted + 1, "c">>] = "open"]
    /\ hpc' = [hpc EXCEPT ![nAccepted + 1] = "accepted"]
    /\ mainpc' = "spawn"
    /\ UNCHANGED <<mainexc, serverOpen, exitCode, fpc, args, chunk, closers,
                   arrived, rpos, written, peerEOF, closeWakes>>

\* handle_client called in the main thread: main() waits for it
MSpawnInline ==
    /\ mainpc = "spawn"
    /\ hpc' = [hpc EXCEPT ![nAccepted] = "connect"]
    /\ mainpc' = "handling"
    /\ UNCHANGED <<mainexc, serverOpen, exitCode, nAccepted, fpc, args, chunk,
                   st, closers, arrived, rpos, written, peerEOF, closeWakes,
                   eventsLeft, clientsLeft>>

\* main() closes its reference to client_socket once the thread is started
MSpawnCloses ==
    /\ mainpc = "spawn"
    /\ hpc' = [hpc EXCEPT ![nAccepted] = "connect"]
    /\ CloseBy(<<nAccepted, "c">>, "main")
    /\ mainpc' = "accept"
    /\ UNCHANGED <<mainexc, serverOpen, exitCode, nAccepted, fpc, args, chunk,
                   arrived, rpos, written, peerEOF, closeWakes,
                   eventsLeft, clientsLeft>>

\* lines 58-60: the handler thread of the accepted client is started
MSpawn ==
    /\ mainpc = "spawn"
    /\ hpc' = [hpc EXCEPT ![nAccepted] = "connect"]
    /\ mainpc' = "accept"
    /\ UNCHANGED <<mainexc, serverOpen, exitCode, nAccepted, fpc, args, chunk,
                   st, closers, arrived, rpos, written, peerEOF, closeWakes,
                   eventsLeft, clientsLeft>>

\* an except clause inside the loop: the loop goes on after the interrupt
AfterInterruptResume == "accept"

\* Where main() goes when KeyboardInterrupt is raised in its loop.
AfterInterrupt == "finally"

\* lines 61-62: KeyboardInterrupt in the loop is caught
MInterrupt ==
    /\ mainpc \in {"accept", "spawn"}
    /\ mainexc = "none"
    /\ eventsLeft > 0
    /\ eventsLeft' = eventsLeft - 1
    /\ mainexc' = "KeyboardInterrupt"
    /\ mainpc' = AfterInterrupt
    /\ UNCHANGED <<serverOpen, exitCode, nAccepted, hpc, fpc, args, chunk, st,
                   closers, arrived, rpos, written, peerEOF, closeWakes,
                   clientsLeft>>

\* lines 57, 60: accept or handler.start() raises; only KeyboardInterrupt is
\* caught, so the exception leaves main() through the finally block
MLoopError ==
    /\ mainpc \in {"accept", "spawn"}
    /\ mainexc = "none"
    /\ eventsLeft > 0
    /\ eventsLeft' = eventsLeft - 1
    /\ mainexc' = "error"
    /\ mainpc' = "finally"
    /\ UNCHANGED <<serverOpen, exitCode, nAccepted, hpc, fpc, args, chunk, st,
                   closers, arrived, rpos, written, peerEOF, closeWakes,
                   clientsLeft>>

\* lines 63-64: server.close()
MFinally ==
    /\ mainpc = "finally"
    /\ serverOpen' = FALSE
    /\ mainpc' = "exit"
    /\ UNCHANGED <<mainexc, exitCode, nAccepted, hpc, fpc, args, chunk, st,
                   closers, arrived, rpos, written, peerEOF, closeWakes,
                   eventsLeft, clientsLeft>>

\* A thread that threading.Thread.start() started and that has not ended.
\* None is a daemon thread: the interpreter joins them all before it exits.
ThreadsRunning ==
    \/ \E i \in Clients : hpc[i] \notin {"idle", "accepted", "done"}
    \/ \E f \in Fwds : fpc[f] \notin {"unstarted", "done"}

\* lines 66-67: main() has returned or raised; the interpreter exits once
\* every thread has ended
MExit ==
    /\ mainpc = "exit"
    /\ exitCode = "running"
    /\ ~ThreadsRunning
    /\ exitCode' = IF mainexc \in {"error", "binderror"} THEN "1" ELSE "0"
    /\ UNCHANGED <<mainpc, mainexc, serverOpen, nAccepted, hpc, fpc, args,
                   chunk, st, closers, arrived, rpos, written, peerEOF,
                   closeWakes, eventsLeft, clientsLeft>>

Main ==
    \/ MBind
    \/ MBindFail
    \/ MAccept
    \/ MSpawn
    \/ MInterrupt
    \/ MLoopError
    \/ MFinally
    \/ MExit

\* ----------------------------------------------------------------- peers

\* The peer of socket s sends its next byte.
PeerSend(s) ==
    /\ Live(s)
    /\ ~peerEOF[s]
    /\ exitCode = "running"
    /\ eventsLeft > 0
    /\ eventsLeft' = eventsLeft - 1
    /\ arrived' = [arrived EXCEPT ![s] = Append(@, <<s[1], s[2], Len(@) + 1>>)]
    /\ UNCHANGED <<mainpc, mainexc, serverOpen, exitCode, nAccepted, hpc, fpc,
                   args, chunk, st, closers, rpos, written, peerEOF,
                   closeWakes, clientsLeft>>

\* The peer of socket s closes its sending side, or its whole connection.
PeerClose(s) ==
    /\ Live(s)
    /\ ~peerEOF[s]
    /\ exitCode = "running"
    /\ eventsLeft > 0
    /\ eventsLeft' = eventsLeft - 1
    /\ peerEOF' = [peerEOF EXCEPT ![s] = TRUE]
    /\ UNCHANGED <<mainpc, mainexc, serverOpen, exitCode, nAccepted, hpc, fpc,
                   args, chunk, st, closers, arrived, rpos, written,
                   closeWakes, clientsLeft>>

\* ------------------------------------------------------- specifications

InitState ==
    /\ mainpc = "bind"
    /\ mainexc = "none"
    /\ serverOpen = FALSE
    /\ exitCode = "running"
    /\ nAccepted = 0
    /\ hpc = [i \in Clients |-> "idle"]
    /\ fpc = [f \in Fwds |-> "unstarted"]
    /\ args = [f \in Fwds |-> <<>>]
    /\ chunk = [f \in Fwds |-> <<>>]
    /\ st = [s \in Socks |-> "absent"]
    /\ closers = [s \in Socks |-> {}]
    /\ arrived = [s \in Socks |-> <<>>]
    /\ rpos = [s \in Socks |-> 0]
    /\ written = [s \in Socks |-> <<>>]
    /\ peerEOF = [s \in Socks |-> FALSE]
    /\ closeWakes \in BOOLEAN

Init ==
    /\ InitState
    /\ eventsLeft = MaxEvents
    /\ clientsLeft = MaxClients

Next ==
    \/ Main
    \/ \E i \in Clients : HandleClient(i)
    \/ \E f \in Fwds : Forward(f)
    \/ \E s \in Socks : PeerSend(s)
    \/ \E s \in Socks : PeerClose(s)

Spec == Init /\ [][Next]_vars

\* The life of one pair, with every thread of the program scheduled fairly: a
\* step of a thread that stays possible is eventually taken.  The peers, the
\* signal and the failures are under no obligation.  One client connects:
\* handle_client shares no state with the handler of another client, and what
\* is checked under this specification is said of each pair by itself.
LivePairs == {1}

InitLive ==
    /\ InitState
    /\ eventsLeft = LiveEvents
    /\ clientsLeft = Cardinality(LivePairs)

Fairness ==
    /\ WF_vars(MBind \/ MSpawn \/ MFinally \/ MExit)
    /\ \A i \in LivePairs :
         WF_vars(HConnect(i) \/ HStart1(i) \/ HStart2(i) \/ HJoin1(i)
                   \/ HJoin2(i) \/ HExcept(i))
    /\ \A f \in LivePairs \X Dirs :
         WF_vars(FRecvCall(f) \/ FRecvData(f) \/ FRecvEOF(f) \/ FRecvAbort(f)
                   \/ FSend(f) \/ FCloseSrc(f) \/ FCloseDst(f))

LiveSpec == InitLive /\ [][Next]_vars /\ Fairness

\* ----------------------------------------------------------------- claims

Other(s) == <<s[1], IF s[2] = "c" THEN "r" ELSE "c">>

RunningPcs == {"recv", "inrecv", "send"}

\* Both forwarders of pair i are in their copy loops.
Relaying(i) == \A d \in Dirs : fpc[<<i, d>>] \in RunningPcs

\* Pair i no longer has both ends open and both forwarders copying: a peer
\* closed, a forwarder left its loop (EOF or an exception), or the handler
\* never got both forwarders started.
Disturbed(i) ==
    \/ peerEOF[<<i, "c">>] \/ peerEOF[<<i, "r">>]
    \/ \E d \in Dirs : fpc[<<i, d>>] \in {"closeSrc", "closeDst", "done"}
    \/ hpc[i] \in {"except", "done"}
    \/ hpc[i] = "accepted" /\ mainpc # "spawn"

\* C1: in each direction of a relayed pair, whatever the sending peer wrote is
\* eventually written, exactly and in order, to the receiving peer's socket,
\* as long as both ends stay open and no read or write fails.
C1_EventuallyDelivered ==
    \A s \in LivePairs \X Sides :
        (written[Other(s)] # arrived[s])
            ~> (written[Other(s)] = arrived[s] \/ Disturbed(s[1]))

C1_Witness ==
    /\ Relaying(1)
    /\ ~Disturbed(1)
    /\ Len(arrived[<<1, "c">>]) >= 1
    /\ Len(arrived[<<1, "r">>]) >= 1
    /\ written[<<1, "r">>] = arrived[<<1, "c">>]
    /\ written[<<1, "c">>] = arrived[<<1, "r">>]

\* C2: in every state and for every forwarder, what it has written to its
\* destination is a prefix of what arrived on its source.
C2_WrittenIsPrefix ==
    \A f \in Fwds :
        args[f] # <<>> => IsPrefix(written[args[f][2]], arrived[args[f][1]])

\* two bytes of the client have been written to the upstream socket
C2_Witness ==
    /\ Len(written[<<1, "r">>]) = 2
    /\ rpos[<<1, "c">>] = 2
    /\ fpc[<<1, "c2r">>] = "recv"

\* C3 (as claimed): once the client of a relaying pair has closed, the relay
\* releases the upstream connection, and once the upstream has closed, the
\* relay releases the client connection.
C3_OtherSideReleased ==
    \A i \in LivePairs :
        /\ (peerEOF[<<i, "c">>] /\ Relaying(i)) ~> ~Live(<<i, "r">>)
        /\ (peerEOF[<<i, "r">>] /\ Relaying(i)) ~> ~Live(<<i, "c">>)

\* The upstream dial of client i failed.
DialFailed(i) == st[<<i, "r">>] = "unconnected"

\* C4: after a failed upstream dial the handler closes the client socket and
\* starts no forwarder, and main() is still in its accept loop unless an
\* interrupt or an error of its own took it out.
C4_DialFailureContained ==
    \A i \in Clients :
        DialFailed(i) =>
            /\ \A d \in Dirs : fpc[<<i, d>>] = "unstarted"
            /\ hpc[i] \in {"except", "done"}
            /\ hpc[i] = "done" => st[<<i, "c">>] = "closed"
            /\ mainexc = "none" =>
                   mainpc \in {"accept", "spawn"} /\ serverOpen
                       /\ exitCode = "running"

\* the first client's dial failed, the second client is relayed
C4_Witness ==
    /\ DialFailed(1)
    /\ hpc[1] = "done"
    /\ Relaying(2)
    /\ written[<<2, "r">>] = <<<<2, "c", 1>>>>

\* C5: every forwarder of pair i reads and writes the two sockets of pair i,
\* and every byte written to a socket was sent by the peer of the other
\* socket of the same pair.
C5_NoCrossTalk ==
    /\ \A f \in Fwds :
           args[f] # <<>> => args[f][1][1] = f[1] /\ args[f][2][1] = f[1]
    /\ \A s \in Socks : \A k \in 1..Len(written[s]) :
           written[s][k][1] = s[1] /\ written[s][k][2] = Other(s)[2]

\* two pairs relay at the same time, each its own client's byte
C5_Witness ==
    /\ Relaying(1)
    /\ Relaying(2)
    /\ written[<<1, "r">>] # <<>>
    /\ written[<<2, "r">>] # <<>>

\* C6 (as claimed): after the interrupt every connection is released and the
\* process exits with status 0, whatever the peers do.
C6_ShutdownCompletes ==
    (mainexc = "KeyboardInterrupt")
        ~> (exitCode = "0" /\ \A s \in Socks : ~Live(s))

\* C7: once the interrupt is raised main() accepts no client, its next step
\* closes the listening socket, and no step of main() closes a socket of a
\* pair.
C7_ListenerStoppedFirst ==
    [][mainexc = "KeyboardInterrupt" =>
          /\ nAccepted' = nAccepted
          /\ mainpc = "finally" /\ mainpc' # mainpc => ~serverOpen'
          /\ mainpc' # mainpc => st' = st /\ closers' = closers]_vars

\* the listener is closed after an interrupt while a pair is still relaying
C7_Witness ==
    /\ mainexc = "KeyboardInterrupt"
    /\ ~serverOpen
    /\ mainpc = "exit"
    /\ Relaying(1)

C10_PairFinishes ==
    \A i \in LivePairs :
        (\E d \in Dirs : fpc[<<i, d>>] = "done")
            ~> /\ st[<<i, "c">>] = "closed"
               /\ st[<<i, "r">>] = "closed"
               /\ \A d \in Dirs : fpc[<<i, d>>] \in {"unstarted", "done"}
               /\ hpc[i] = "done"

\* C11 (as claimed): when handle_client has returned, no forwarder of its
\* pair is still running.
C11_NoForwarderOutlivesHandler ==
    \A i \in Clients :
        hpc[i] = "done" =>
            \A d \in Dirs : fpc[<<i, d>>] \in {"unstarted", "done"}

\* C12: main() never waits for a client it has accepted: outside bind and
\* shutdown it is in accept, or about to start the handler of the client it
\* has just accepted; every earlier client has its handler thread, whatever
\* that thread and its forwarders are doing.
C12_AcceptLoopNeverWaits ==
    []((mainexc = "none" /\ mainpc # "bind") =>
           /\ mainpc \in {"accept", "spawn"}
           /\ \A i \in Clients :
                  /\ i > nAccepted => hpc[i] = "idle"
                  /\ i < nAccepted => hpc[i] \notin {"idle", "accepted"}
                  /\ i = nAccepted =>
                         IF mainpc = "spawn" THEN hpc[i] = "accepted"
                         ELSE hpc[i] \notin {"idle", "accepted"})

\* main() is back in accept, able to accept, while the first pair relays
C12_Witness ==
    /\ mainpc = "accept"
    /\ mainexc = "none"
    /\ nAccepted = 1
    /\ Relaying(1)
    /\ written[<<1, "r">>] # <<>>
    /\ clientsLeft > 0
    /\ eventsLeft > 0

\* C14: after a failed bind main() is over: the accept loop was never
\* entered, no client was accepted, no thread was started, bind is not tried
\* again, and the exit status is not 0.
C14_BindFailureIsFatal ==
    [](mainexc = "binderror" =>
           /\ mainpc = "exit"
           /\ ~serverOpen
           /\ nAccepted = 0
           /\ \A i \in Clients : hpc[i] = "idle"
           /\ exitCode \in {"running", "1"})

\* the process has exited with status 1 after a failed bind
C14_Witness ==
    /\ mainexc = "binderror"
    /\ exitCode = "1"

\* C13: a step of a forwarder, a failed read or write included, changes
\* nothing of main() (its position, its exception, the listening socket, the
\* exit status) and no socket of another pair; when a forwarder leaves its
\* loop it goes to its finally block, and when it has ended both sockets of
\* its own pair are closed.
C13_FailureStaysInPair ==
    [][\A f \in Fwds :
          (fpc[f] # "unstarted" /\ fpc'[f] # fpc[f]) =>
              /\ mainpc' = mainpc
              /\ mainexc' = mainexc
              /\ serverOpen' = serverOpen
              /\ exitCode' = exitCode
              /\ \A s \in Socks :
                     s[1] # f[1] => st'[s] = st[s] /\ closers'[s] = closers[s]
              /\ \A g \in Fwds : g[1] # f[1] => fpc'[g] = fpc[g]
              /\ fpc'[f] = "done" =>
                     st'[<<f[1], "c">>] = "closed" /\ st'[<<f[1], "r">>] = "closed"
      ]_vars

\* the forwarders of the first pair have ended without any end of stream,
\* that is after a failed read or write, and the second pair relays, and
\* main() is in accept
C13_Witness ==
    /\ \A d \in Dirs : fpc[<<1, d>>] = "done"
    /\ ~peerEOF[<<1, "c">>]
    /\ ~peerEOF[<<1, "r">>]
    /\ st[<<1, "c">>] = "closed"
    /\ st[<<1, "r">>] = "closed"
    /\ Relaying(2)
    /\ mainpc = "accept"
    /\ mainexc = "none"
    /\ exitCode = "running"

\* The forwarder has left its copy loop for its finally block, or has ended.
Ended == {"closeSrc", "closeDst", "done"}

\* C15 (as claimed): a pair whose forwarders ended by a failure (neither peer
\* ever closed, so no end of stream was read) has that failure reported by
\* the time its handler returns; the only report handle_client makes is the
\* print of its except block, which is followed by client_socket.close().
C15_FailureIsReported ==
    \A i \in Clients :
        ( /\ hpc[i] = "done"
          /\ \A d \in Dirs : fpc[<<i, d>>] = "done"
          /\ ~peerEOF[<<i, "c">>]
          /\ ~peerEOF[<<i, "r">>] )
        => "handler" \in closers[<<i, "c">>]

\* Everything that has happened so far is a client connecting, a peer sending
\* a byte or a peer closing: no call of the program has raised, and main()
\* was not interrupted.  (Each of those, and each failure, takes one unit of
\* the environment's budget.)
FaultFree ==
    eventsLeft + nAccepted
        + Cardinality(UNION {{arrived[s][k] : k \in 1..Len(arrived[s])} : s \in Socks})
        + Cardinality({s \in Socks : peerEOF[s]})
    = MaxEvents

\* C16 (as claimed): while a forwarder holds a chunk it has read and not yet
\* written, its destination socket is not closed under it, as long as no
\* read or write has failed; this includes the case where the peer of the
\* destination has half-closed and the opposite forwarder has read the end
\* of its stream.
C16_ChunkInHandIsWritable ==
    \A f \in Fwds :
        (fpc[f] = "send" /\ chunk[f] # <<>> /\ FaultFree)
            => st[args[f][2]] = "open"

\* Both forwarders of pair i have been started.
BothStarted(i) == \A d \in Dirs : fpc[<<i, d>>] # "unstarted"

\* C17: a socket of a pair whose two forwarders have been started is closed
\* only by a step of one of that pair's own forwarders, taken from its
\* finally block, which it enters only after an end of stream or a failed
\* read or write; so while both forwarders of a pair are in their copy loops
\* both of its sockets are open and nobody has called close() on them.  This
\* holds with or without an interrupt of main().
C17_OnlyOwnForwarderCloses ==
    [][\A i \in Clients :
          /\ \A s \in {<<i, "c">>, <<i, "r">>} :
                 (BothStarted(i) /\ (st'[s] # st[s] \/ closers'[s] # closers[s]))
                     => \E d \in Dirs :
                            /\ fpc[<<i, d>>] \in {"closeSrc", "closeDst"}
                            /\ fpc'[<<i, d>>] # fpc[<<i, d>>]
                            /\ closers'[s] = closers[s] \cup {d}
                            /\ st'[s] = "closed"
          /\ Relaying(i)' =>
                 \A s \in {<<i, "c">>, <<i, "r">>} :
                     st'[s] = "open" /\ closers'[s] = {}
      ]_vars

\* the first pair was closed by its client-to-remote forwarder after the end
\* of the client's stream, and the second pair goes on relaying untouched
C17_Witness ==
    /\ peerEOF[<<1, "c">>]
    /\ st[<<1, "c">>] = "closed"
    /\ "c2r" \in closers[<<1, "c">>]
    /\ "handler" \notin closers[<<1, "c">>]
    /\ Relaying(2)
    /\ st[<<2, "c">>] = "open"
    /\ st[<<2, "r">>] = "open"
    /\ mainexc = "none"

\* C18: a forwarder goes round its loop only after a read that returned data
\* and a write that wrote all of it; a read that ends in anything else, or a
\* write that does not write the whole chunk, takes it to its finally block,
\* and from there it never reads from its source or writes to its destination
\* again.
C18_StopsAtFirstFailure ==
    [][\A f \in Fwds :
          /\ (fpc[f] = "recv" /\ fpc'[f] # "recv") =>
                 fpc'[f] \in {"inrecv", "closeSrc"}
          /\ (fpc[f] = "inrecv" /\ fpc'[f] # "inrecv") =>
                 \/ /\ fpc'[f] = "send"
                    /\ chunk'[f] # <<>>
                    /\ rpos'[args[f][1]] = rpos[args[f][1]] + Len(chunk'[f])
                 \/ /\ fpc'[f] = "closeSrc"
                    /\ rpos'[args[f][1]] = rpos[args[f][1]]
          /\ (fpc[f] = "send" /\ fpc'[f] # "send") =>
                 \/ /\ fpc'[f] = "recv"
                    /\ written'[args[f][2]] = written[args[f][2]] \o chunk[f]
                 \/ fpc'[f] = "closeSrc"
          /\ fpc[f] \in Ended =>
                 /\ fpc'[f] \in Ended
                 /\ rpos'[args[f][1]] = rpos[args[f][1]]
                 /\ written'[args[f][2]] = written[args[f][2]]
                 /\ chunk'[f] = chunk[f]
      ]_vars

\* the client-to-remote forwarder of the first pair has ended after it had
\* written something, no end of stream was sent to it, and bytes that arrived
\* on its source were never read
C18_Witness ==
    /\ fpc[<<1, "c2r">>] = "done"
    /\ written[<<1, "r">>] # <<>>
    /\ ~peerEOF[<<1, "c">>]
    /\ Available(<<1, "c">>) # <<>>

\* C19: the two Thread objects of a pair are built together, over that pair's
\* two sockets in opposite directions: one reads client_socket and writes
\* remote_socket, the other reads remote_socket and writes client_socket.  No
\* two started forwarders ever read the same socket or write the same socket,
\* none reads the socket it writes, and from the moment handle_client waits in
\* join() both forwarders of its pair have been started, so that each of its
\* sockets has had exactly one reading and one writing thread.
C19_TwoForwardersOppositeWays ==
    [](/\ \A i \in Clients :
             /\ hpc[i] \in {"start1", "start2", "join1", "join2"} =>
                    /\ args[<<i, "c2r">>] = << <<i, "c">>, <<i, "r">> >>
                    /\ args[<<i, "r2c">>] = << <<i, "r">>, <<i, "c">> >>
             /\ hpc[i] \in {"join1", "join2"} => BothStarted(i)
       /\ \A f \in Fwds : \A g \in Fwds :
             (fpc[f] # "unstarted" /\ fpc[g] # "unstarted" /\ f # g) =>
                 /\ args[f][1] # args[g][1]
                 /\ args[f][2] # args[g][2]
       /\ \A f \in Fwds : fpc[f] # "unstarted" => args[f][1] # args[f][2])

\* the first pair relays and has written bytes in both directions
C19_Witness ==
    /\ Relaying(1)
    /\ hpc[1] = "join1"
    /\ written[<<1, "r">>] # <<>>
    /\ written[<<1, "c">>] # <<>>

\* C20 (as claimed): when handle_client has returned, client_socket and
\* remote_socket are both closed.
C20_HandlerLeavesNoSocketOpen ==
    \A i \in Clients :
        hpc[i] = "done" =>
            st[<<i, "c">>] = "closed" /\ st[<<i, "r">>] = "closed"

====
